---- MODULE Spec2Model ----
(***************************************************************************)
(* The two preprocessors of the ginevra repository, better.cpp and         *)
(* ginevra++.cpp, as one state machine.  A run picks a variant, a path     *)
(* argument and the bytes of the file at that path; every step is one      *)
(* statement group of main or one iteration of the scanner loop of         *)
(* Scanner::nextToken.                                                     *)
(*                                                                         *)
(* A byte is a one-character string.  "xFF" is the byte 0xFF and "x83" the *)
(* byte 0x83.  EOFint is the int -1 that get() and peek() return at the    *)
(* end of the stream.  Both programs store what get() returns in a         *)
(* `char`; with the signed char of the x86 ABIs the int -1 and the byte    *)
(* 0xFF both become char(-1), which is written "xFF" here (ToChar).        *)
(***************************************************************************)
EXTENDS Integers, Sequences, FiniteSets, TLC

VARIABLES variant, path, pc, ret, input, pos, eofbit, failbit,
          currChar, currState, tokenText, token, symbolTable,
          key, value, lineNum, currColumn, out, diags, exitCode

vars == <<variant, path, pc, ret, input, pos, eofbit, failbit,
          currChar, currState, tokenText, token, symbolTable,
          key, value, lineNum, currColumn, out, diags, exitCode>>

----------------------------------------------------------------------------
(* Bounds of the model *)

MaxFrags == 3
MaxCore == 4
Overrun == 2

----------------------------------------------------------------------------
(* Bytes and texts *)

EOFint == "EOF"
EOFchar == "xFF"

ToChar(i) == IF i = EOFint THEN EOFchar ELSE i

Letters == {"a","b","c","d","e","f","g","h","i","j","k","l","m","n","o","p",
            "q","r","s","t","u","v","w","x","y","z",
            "A","B","C","D","E","F","G","H","I","J","K","L","M","N","O","P",
            "Q","R","S","T","U","V","W","X","Y","Z"}
Digits == {"0","1","2","3","4","5","6","7","8","9"}

IsAlpha(c) == c \in Letters
IsAlnum(c) == c \in Letters \cup Digits

RECURSIVE Concat(_)
Concat(ss) == IF ss = <<>> THEN <<>> ELSE Head(ss) \o Concat(Tail(ss))

DefineKw == <<"#","d","e","f","i","n","e">>
DefineWord == <<"d","e","f","i","n","e">>

(* The pieces files are made of: whole directive lines, and the bytes the  *)
(* scanners treat specially.  A file is up to MaxFrags pieces of Frags, or *)
(* up to MaxCore pieces of CoreFrags.                                      *)
Define1 == DefineKw \o <<" ","X"," ","1","\n">>
Define2 == DefineKw \o <<" ","X"," ","Y"," ","2","\n">>

CoreFrags == { Define1, <<"#">>, <<"X">>, <<";">>, <<"\n">>,
               <<"/","*">>, <<"*","/">>, <<"*">> }

Frags == CoreFrags \cup
         { Define2, DefineKw, <<" ">>,
           <<"'">>, <<"\"">>, <<"\\","'">>, <<"\\","\"">>, <<"\\","\n">>,
           <<"xFF">> }

Cat(frags, n) == { Concat(fs) : fs \in UNION { [1..k -> frags] : k \in 0..n } }

Inputs == Cat(Frags, MaxFrags) \cup Cat(CoreFrags, MaxCore)

Paths == { <<"a">>, <<"a","b">>, <<".","h">>, <<"a",".","c">>,
           <<"a",".","h">>, <<".","c","p","p">>, <<"a",".","h","h">>,
           <<"a",".","c","p","p">>, <<"a",".","t","x","t">> }

----------------------------------------------------------------------------
(* std::ifstream over `input`: a stream is [pos, eof, fail]; pos bytes have *)
(* been extracted.  Every operation first builds a sentry, which sets      *)
(* failbit and does nothing else when the stream is not good().            *)

Stream == [pos |-> pos, eof |-> eofbit, fail |-> failbit]

Good(f) == ~f.eof /\ ~f.fail

Get(f) ==
    IF ~Good(f) THEN [c |-> EOFint, f |-> [f EXCEPT !.fail = TRUE]]
    ELSE IF f.pos < Len(input)
         THEN [c |-> input[f.pos + 1], f |-> [f EXCEPT !.pos = f.pos + 1]]
         ELSE [c |-> EOFint, f |-> [f EXCEPT !.eof = TRUE, !.fail = TRUE]]

Peek(f) ==
    IF ~Good(f) THEN [c |-> EOFint, f |-> [f EXCEPT !.fail = TRUE]]
    ELSE IF f.pos < Len(input)
         THEN [c |-> input[f.pos + 1], f |-> f]
         ELSE [c |-> EOFint, f |-> [f EXCEPT !.eof = TRUE]]

Ignore1(f) ==
    IF ~Good(f) THEN [f EXCEPT !.fail = TRUE]
    ELSE IF f.pos < Len(input)
         THEN [f EXCEPT !.pos = f.pos + 1]
         ELSE [f EXCEPT !.eof = TRUE]

(* putback clears eofbit first; with failbit set the sentry fails.  The    *)
(* byte put back is always the one just extracted.                          *)
Putback(f, c) ==
    LET g == [f EXCEPT !.eof = FALSE]
    IN  IF g.fail THEN g
        ELSE IF g.pos > 0 /\ ToChar(input[g.pos]) = c
             THEN [g EXCEPT !.pos = g.pos - 1]
             ELSE [g EXCEPT !.fail = TRUE]

(* Index of the first "\n" after position p, or 0 *)
RECURSIVE NewlineAfter(_)
NewlineAfter(p) ==
    IF p >= Len(input) THEN 0
    ELSE IF input[p + 1] = "\n" THEN p + 1 ELSE NewlineAfter(p + 1)

(* std::getline(file, line): the delimiter is extracted and not stored;    *)
(* failbit when nothing at all was extracted.                              *)
GetLine(f) ==
    IF ~Good(f) THEN [line |-> <<>>, f |-> [f EXCEPT !.fail = TRUE]]
    ELSE LET j == NewlineAfter(f.pos)
         IN  IF j > 0
             THEN [line |-> SubSeq(input, f.pos + 1, j - 1),
                   f |-> [f EXCEPT !.pos = j]]
             ELSE [line |-> SubSeq(input, f.pos + 1, Len(input)),
                   f |-> [f EXCEPT !.pos = Len(input), !.eof = TRUE,
                                   !.fail = (f.pos = Len(input))]]

(* std::string += char.  A token never needs more bytes than the file has; *)
(* past that the text stands for a string that keeps growing.              *)
AppendCh(text, c) ==
    IF Len(text) < Len(input) + Overrun THEN Append(text, c) ELSE text

Diag(chan, msg, arg) == [chan |-> chan, msg |-> msg, arg |-> arg]

----------------------------------------------------------------------------
(* main, lines 201-210 of better.cpp and 229-237 of ginevra++.cpp: the     *)
(* extension check.  substr(p) with p > size() throws std::out_of_range,   *)
(* which nothing catches; size()-4 wraps around for a size below 4.        *)

Suffix(p, n) == SubSeq(p, Len(p) - n + 1, Len(p))

ExtensionCheck(p) ==
    IF Len(p) < 2 THEN "invalid"
    ELSE IF Suffix(p, 2) = <<".","h">> THEN "ok"
    ELSE IF Len(p) < 4 THEN "out_of_range"
    ELSE IF Suffix(p, 4) = <<".","c","p","p">> THEN "ok"
    ELSE "invalid"

Init ==
    /\ variant \in {"better", "ginevra"}
    /\ path \in Paths
    /\ pc = "start"
    /\ ret = "none"
    /\ input = <<>>
    /\ pos = 0
    /\ eofbit = FALSE
    /\ failbit = FALSE
    /\ currChar = " "
    /\ currState = "Start"
    /\ tokenText = <<>>
    /\ token = "none"
    /\ symbolTable = [k \in {} |-> <<>>]
    /\ key = <<>>
    /\ value = <<>>
    /\ lineNum = 1
    /\ currColumn = 1
    /\ out = <<>>
    /\ diags = <<>>
    /\ exitCode = "running"

CheckExtension ==
    /\ pc = "start"
    /\ LET r == ExtensionCheck(path)
       IN  /\ pc' = IF r = "ok" THEN "open" ELSE "halt"
           /\ exitCode' = CASE r = "ok" -> exitCode
                            [] r = "invalid" -> "exit1"
                            [] OTHER -> "abort"
           /\ diags' = IF r = "invalid"
                       THEN Append(diags, Diag("err", "Invalid file extension", <<>>))
                       ELSE diags
    /\ UNCHANGED <<variant, path, ret, input, pos, eofbit, failbit, currChar,
                   currState, tokenText, token, symbolTable, key, value,
                   lineNum, currColumn, out>>

(* The files of the run's directory: a.cpp holds any of Inputs, a.h is an  *)
(* empty file, and no other path names a file.                             *)
FileAt(p) ==
    IF p = <<"a",".","c","p","p">> THEN Inputs
    ELSE IF p = <<"a",".","h">> THEN { <<>> }
    ELSE {}

----------------------------------------------------------------------------
(* Scanner::getCh of ginevra++.cpp, on g = [f, lineNum, currColumn]        *)

GetCh(g) ==
    LET pk == Peek(g.f)
        gt == Get(pk.f)
    IN  [c |-> ToChar(gt.c),
         g |-> [f |-> gt.f,
                lineNum |-> IF pk.c = "\n" THEN g.lineNum + 1 ELSE g.lineNum,
                currColumn |-> IF pk.c = "\n" THEN 1 ELSE g.currColumn]]

GScanner == [f |-> Stream, lineNum |-> lineNum, currColumn |-> currColumn]

(* Scanner::Scanner of both programs *)
OpenMissing ==
    /\ pc = "open"
    /\ FileAt(path) = {}
    /\ pc' = "halt"
    /\ exitCode' = "exit1"
    /\ diags' = Append(diags, Diag("err", "file can't be found", path))
    /\ UNCHANGED <<variant, path, ret, input, pos, eofbit, failbit, currChar,
                   currState, tokenText, token, symbolTable, key, value,
                   lineNum, currColumn, out>>

OpenEmpty ==
    /\ pc = "open"
    /\ <<>> \in FileAt(path)
    /\ input' = <<>>
    /\ eofbit' = TRUE
    /\ pc' = "halt"
    /\ exitCode' = "exit1"
    /\ UNCHANGED <<variant, path, ret, pos, failbit, currChar,
                   currState, tokenText, token, symbolTable, key, value,
                   lineNum, currColumn, out, diags>>

OpenBetter ==
    /\ pc = "open"
    /\ variant = "better"
    /\ \E inp \in FileAt(path) \ { <<>> } : input' = inp
    /\ pc' = "b_loop"
    /\ UNCHANGED <<variant, path, ret, pos, eofbit, failbit, currChar,
                   currState, tokenText, token, symbolTable, key, value,
                   lineNum, currColumn, out, diags, exitCode>>

OpenGinevra ==
    /\ pc = "open"
    /\ variant = "ginevra"
    /\ \E inp \in FileAt(path) \ { <<>> } :
          /\ input' = inp
          /\ currChar' = ToChar(inp[1])
          /\ lineNum' = IF inp[1] = "\n" THEN lineNum + 1 ELSE lineNum
    /\ pos' = 1
    /\ pc' = "g_loop"
    /\ UNCHANGED <<variant, path, ret, eofbit, failbit,
                   currState, tokenText, token, symbolTable, key, value,
                   currColumn, out, diags, exitCode>>

----------------------------------------------------------------------------
(* Scanner::nextToken of better.cpp.  One iteration of its loop maps the   *)
(* state, the current char, the text and the stream to                     *)
(* [st, text, f, ch, done, exit, diag].                                    *)

BR(st, text, f, ch, done, exit, diag) ==
    [st |-> st, text |-> text, f |-> f, ch |-> ch, done |-> done,
     exit |-> exit, diag |-> diag]

BStart(c, text, f) ==
    LET pk == Peek(f)
        f1 == IF c = "/" THEN pk.f ELSE f   \* peek() runs only after '/'
    IN  IF c = " " \/ c = "\t" THEN BR("Start", text, f, c, FALSE, FALSE, <<>>)
        ELSE IF c = "#" \/ IsAlpha(c)
             THEN BR("InIdentifier", AppendCh(text, c), f, c, FALSE, FALSE, <<>>)
        ELSE IF c = "'"
             THEN BR("InSingleQuote", AppendCh(text, c), f, c, FALSE, FALSE, <<>>)
        ELSE IF c = "\""
             THEN BR("InDoubleQuote", AppendCh(text, c), f, c, FALSE, FALSE, <<>>)
        ELSE IF c = "/" /\ pk.c = "*"
             THEN BR("InComment", text, Ignore1(pk.f), c, FALSE, FALSE, <<>>)
        ELSE IF c = EOFchar
             THEN BR("EoF", text, f1, c, TRUE, FALSE, <<>>)
        ELSE IF c = "\n"
             THEN BR("Start", AppendCh(text, c), f1, c, FALSE, FALSE, <<>>)
        ELSE BR("Other", AppendCh(text, c), f1, c, FALSE, FALSE, <<>>)

BInIdentifier(c, text, f) ==
    IF IsAlpha(c) \/ c = "."
    THEN BR("InIdentifier", AppendCh(text, c), f, c, FALSE, FALSE, <<>>)
    ELSE BR("Identifier", text, Putback(f, c), c, TRUE, FALSE, <<>>)

(* line 119: currChar + m_file.get() is the int 92 + 39 = 131, stored as   *)
(* one char, the byte 0x83                                                 *)
BInSingleQuote(c, text, f) ==
    LET pk == Peek(f)
        f1 == IF c = "\\" THEN pk.f ELSE f
    IN  IF c = "'"
        THEN BR("String", AppendCh(text, c), f, c, TRUE, FALSE, <<>>)
        ELSE IF c = "\\" /\ pk.c = "'"
             THEN BR("InSingleQuote", AppendCh(text, "x83"), Get(pk.f).f, c,
                     FALSE, FALSE, <<>>)
        ELSE IF c = "\n"
             THEN BR("Bad", text, Get(f1).f, ToChar(Get(f1).c), TRUE, FALSE,
                     <<Diag("err", "Malformed string", <<>>)>>)
        ELSE IF c = EOFchar
             THEN BR("Bad", text, f1, c, TRUE, FALSE,
                     <<Diag("err", "Unexpected end of file", <<>>)>>)
        ELSE BR("InSingleQuote", AppendCh(text, c), f1, c, FALSE, FALSE, <<>>)

BInDoubleQuote(c, text, f) ==
    LET pk == Peek(f)
        f1 == IF c = "\\" THEN pk.f ELSE f
    IN  IF c = "\""
        THEN BR("String", AppendCh(text, c), f, c, TRUE, FALSE, <<>>)
        ELSE IF c = "\\" /\ pk.c = "\""
             THEN BR("InDoubleQuote", text, Get(pk.f).f, c, FALSE, FALSE, <<>>)
        ELSE IF c = "\n"
             THEN BR("Bad", AppendCh(text, c), f1, c, TRUE, FALSE,
                     <<Diag("err", "Malformed string", <<>>)>>)
        ELSE IF c = EOFchar
             THEN BR("Bad", text, f1, c, FALSE, TRUE,
                     <<Diag("err", "Fatal error: Unexpected end of file", <<>>)>>)
        ELSE BR("InDoubleQuote", AppendCh(text, c), f1, c, FALSE, FALSE, <<>>)

(* line 161 reads `currChar == '*' || m_file.peek() == '/'`                *)
BCommentEnds(c, pk) == c = "*" \/ pk.c = "/"

BInComment(c, text, f) ==
    LET pk == Peek(f)
        f1 == IF c = "*" THEN f ELSE pk.f   \* peek() runs unless '*'
        f2 == Ignore1(f1)
        p2 == Peek(f2)
        f3 == IF p2.c = "\n" THEN Ignore1(p2.f) ELSE p2.f
    IN  IF BCommentEnds(c, pk)
        THEN BR("Start", text, f3, c, FALSE, FALSE, <<>>)
        ELSE IF c = EOFchar
             THEN BR("Bad", text, f1, c, FALSE, TRUE,
                     <<Diag("err", "Fatal error: Unexpected end of file", <<>>)>>)
        ELSE BR("InComment", text, f1, c, FALSE, FALSE, <<>>)

BOther(c, text, f) ==
    LET pk == Peek(f)
        f1 == IF c = "/" THEN pk.f ELSE f
    IN  IF c = " " \/ c = "\n"
        THEN BR("Other", AppendCh(text, c), f, c, TRUE, FALSE, <<>>)
        ELSE IF c = "/" /\ pk.c = "*"
             THEN BR("InComment", text, Ignore1(pk.f), c, FALSE, FALSE, <<>>)
        ELSE BR("Other", AppendCh(text, c), f1, c, FALSE, FALSE, <<>>)

BIteration(st, c, text, f) ==
    CASE st = "Start" -> BStart(c, text, f)
      [] st = "InIdentifier" -> BInIdentifier(c, text, f)
      [] st = "InSingleQuote" -> BInSingleQuote(c, text, f)
      [] st = "InDoubleQuote" -> BInDoubleQuote(c, text, f)
      [] st = "InComment" -> BInComment(c, text, f)
      [] st = "Other" -> BOther(c, text, f)
      [] OTHER -> BR("Bad", text, f, c, TRUE, FALSE, <<>>)


(* std::map: table[k] = v *)
Bind(table, k, v) ==
    [x \in DOMAIN table \cup {k} |-> IF x = k THEN v ELSE table[x]]

WarningText(symbol) ==
    <<"\n","W","a","r","n","i","n","g",":"," ","s","y","m","b","o","l"," ">>
    \o symbol \o <<" ","r","e","d","e","f","i","n","e","d","\n">>

----------------------------------------------------------------------------
(* main of better.cpp *)

(* line 213, then the entry of nextToken (lines 58-61) *)
BetterLoop ==
    /\ pc = "b_loop"
    /\ variant = "better"
    /\ IF failbit
       THEN /\ pc' = "halt"
            /\ exitCode' = "exit0"
            /\ UNCHANGED <<ret, pos, eofbit, failbit, currChar, currState,
                           tokenText>>
       ELSE LET gt == Get(Stream)
            IN  /\ currChar' = ToChar(gt.c)
                /\ pos' = gt.f.pos
                /\ eofbit' = gt.f.eof
                /\ failbit' = gt.f.fail
                /\ currState' = "Start"
                /\ tokenText' = <<>>
                /\ ret' = "tok"
                /\ pc' = "b_scan"
                /\ UNCHANGED exitCode
    /\ UNCHANGED <<variant, path, input, token, symbolTable, key, value,
                   lineNum, currColumn, out, diags>>

(* one iteration of the loop of lines 62-194, with the get() of line 192   *)
BetterScan ==
    /\ pc = "b_scan"
    /\ LET r == BIteration(currState, currChar, tokenText, Stream)
           gt == Get(r.f)
           f2 == IF r.done \/ r.exit THEN r.f ELSE gt.f
       IN  /\ currState' = r.st
           /\ tokenText' = r.text
           /\ currChar' = IF r.done \/ r.exit THEN r.ch ELSE ToChar(gt.c)
           /\ pos' = f2.pos
           /\ eofbit' = f2.eof
           /\ failbit' = f2.fail
           /\ diags' = diags \o r.diag
           /\ pc' = IF r.exit THEN "halt"
                    ELSE IF r.done THEN (IF ret = "tok" THEN "b_tok" ELSE "b_sym")
                    ELSE "b_scan"
           /\ exitCode' = IF r.exit THEN "exit1" ELSE exitCode
    /\ UNCHANGED <<variant, path, ret, input, token, symbolTable, key, value,
                   lineNum, currColumn, out>>

(* lines 216-217 and 229-241 with the identifier written by                *)
(* `std::cout << symbolTable[tokenText]` alone, without the count() test   *)
(* of line 232: std::map::operator[] inserts an empty value for a key that *)
(* is not bound                                                            *)
BetterTokenUnguarded ==
    /\ pc = "b_tok"
    /\ IF tokenText = DefineKw
       THEN LET gt == Get(Stream)
            IN  /\ currChar' = ToChar(gt.c)
                /\ pos' = gt.f.pos
                /\ eofbit' = gt.f.eof
                /\ failbit' = gt.f.fail
                /\ currState' = "Start"
                /\ tokenText' = <<>>
                /\ ret' = "sym"
                /\ pc' = "b_scan"
                /\ UNCHANGED <<out, diags, symbolTable>>
       ELSE /\ pc' = "b_loop"
            /\ symbolTable' = IF currState = "Identifier"
                                 /\ tokenText \notin DOMAIN symbolTable
                              THEN Bind(symbolTable, tokenText, <<>>)
                              ELSE symbolTable
            /\ out' = IF currState = "Identifier"
                      THEN IF tokenText \in DOMAIN symbolTable
                           THEN out \o symbolTable[tokenText] \o <<" ">>
                           ELSE out \o <<" ">>
                      ELSE IF currState # "Bad" THEN out \o tokenText
                      ELSE out
            /\ diags' = IF currState = "Bad"
                        THEN Append(diags, Diag("err", "bad token", tokenText))
                        ELSE diags
            /\ UNCHANGED <<ret, pos, eofbit, failbit, currChar, currState,
                           tokenText>>
    /\ UNCHANGED <<variant, path, input, token, key, value,
                   lineNum, currColumn, exitCode>>

(* lines 216-217 and 229-241 *)
BetterToken ==
    /\ pc = "b_tok"
    /\ IF tokenText = DefineKw
       THEN LET gt == Get(Stream)
            IN  /\ currChar' = ToChar(gt.c)
                /\ pos' = gt.f.pos
                /\ eofbit' = gt.f.eof
                /\ failbit' = gt.f.fail
                /\ currState' = "Start"
                /\ tokenText' = <<>>
                /\ ret' = "sym"
                /\ pc' = "b_scan"
                /\ UNCHANGED <<out, diags>>
       ELSE /\ pc' = "b_loop"
            /\ out' = IF currState = "Identifier"
                      THEN IF tokenText \in DOMAIN symbolTable
                           THEN out \o symbolTable[tokenText] \o <<" ">>
                           ELSE out \o tokenText \o <<" ">>
                      ELSE IF currState # "Bad" THEN out \o tokenText
                      ELSE out
            /\ diags' = IF currState = "Bad"
                        THEN Append(diags, Diag("err", "bad token", tokenText))
                        ELSE diags
            /\ UNCHANGED <<ret, pos, eofbit, failbit, currChar, currState,
                           tokenText>>
    /\ UNCHANGED <<variant, path, input, token, symbolTable, key, value,
                   lineNum, currColumn, exitCode>>

(* lines 218-228: tokenText is the token after #define *)
BetterDefine ==
    /\ pc = "b_sym"
    /\ LET gl == GetLine(Stream)
       IN  /\ pos' = gl.f.pos
           /\ eofbit' = gl.f.eof
           /\ failbit' = gl.f.fail
           /\ value' = gl.line
           /\ IF currState # "Identifier"
              THEN /\ diags' = Append(diags,
                          Diag("err", "expected identifier after #define", <<>>))
                   /\ out' = out \o tokenText \o <<" ">> \o gl.line \o <<"\n">>
                   /\ UNCHANGED <<symbolTable, key>>
              ELSE /\ IF tokenText \in DOMAIN symbolTable
                      THEN /\ out' = out \o WarningText(tokenText)
                           /\ diags' = Append(diags,
                                  Diag("out", "symbol redefined", tokenText))
                      ELSE UNCHANGED <<out, diags>>
                   /\ key' = tokenText
                   /\ symbolTable' = Bind(symbolTable, tokenText, gl.line)
    /\ pc' = "b_loop"
    /\ UNCHANGED <<variant, path, ret, input, currChar, currState, tokenText,
                   token, lineNum, currColumn, exitCode>>

----------------------------------------------------------------------------
(* Scanner::nextToken of ginevra++.cpp.  One iteration of its loop maps    *)
(* the state, currChar, currText and the scanner g to                      *)
(* [st, text, g, ch, done, exit, diag]; ch is currChar after the switch.   *)

GR(st, text, g, ch, done, exit, diag) ==
    [st |-> st, text |-> text, g |-> g, ch |-> ch, done |-> done,
     exit |-> exit, diag |-> diag]

WithStream(g, f) == [g EXCEPT !.f = f]

GStart(c, text, g) ==
    LET pk == Peek(g.f)
        g1 == IF c = "/" \/ c = "\\" THEN WithStream(g, pk.f) ELSE g
        nx == GetCh(g)
        n1 == GetCh(g1)
    IN  IF c = " " \/ c = "\t" THEN GR("Start", text, g, c, FALSE, FALSE, <<>>)
        ELSE IF c = EOFchar THEN GR("EoF", text, g, c, TRUE, FALSE, <<>>)
        ELSE IF c = "\n"
             THEN GR("EoL", AppendCh(text, c), nx.g, nx.c, TRUE, FALSE, <<>>)
        ELSE IF c = "'"
             THEN GR("InSingleQuote", AppendCh(text, c), g, c, FALSE, FALSE, <<>>)
        ELSE IF c = "\""
             THEN GR("InDoubleQuote", AppendCh(text, c), g, c, FALSE, FALSE, <<>>)
        ELSE IF IsAlpha(c)
             THEN GR("InIdentifier", AppendCh(text, c), g, c, FALSE, FALSE, <<>>)
        ELSE IF c = "/" /\ pk.c = "*"
             THEN GR("InComment", text, n1.g, n1.c, FALSE, FALSE, <<>>)
        ELSE IF c = "\\" /\ pk.c = "\n"
             THEN GR("Start", text, n1.g, n1.c, FALSE, FALSE, <<>>)
        ELSE GR("Other", AppendCh(text, c), n1.g, n1.c, TRUE, FALSE, <<>>)

(* lines 109-144; q is the delimiter and esc what an escaped delimiter     *)
(* appends: '\'' at line 116 and '\'' again at line 134                    *)
GInQuote(st, q, esc, c, text, g) ==
    LET pk == Peek(g.f)
        g1 == IF c # "\\" THEN g
              ELSE IF pk.c = q THEN WithStream(g, pk.f)
              ELSE WithStream(g, Peek(pk.f).f)   \* both peek() calls ran
        nx == GetCh(g)
        n1 == GetCh(g1)
    IN  IF c = q
        THEN GR("String", AppendCh(text, c), nx.g, nx.c, TRUE, FALSE, <<>>)
        ELSE IF c = "\\" /\ pk.c = q
             THEN GR(st, AppendCh(text, esc), n1.g, n1.c, FALSE, FALSE, <<>>)
        ELSE IF c = "\\" /\ pk.c = "\n"
             THEN GR(st, text, n1.g, n1.c, FALSE, FALSE, <<>>)
        ELSE IF c = EOFchar \/ c = "\n"
             THEN GR("Bad", text, g1, c, TRUE, FALSE, <<>>)
        ELSE GR(st, AppendCh(text, c), g1, c, FALSE, FALSE, <<>>)

GInSingleQuote(c, text, g) == GInQuote("InSingleQuote", "'", "'", c, text, g)

GInDoubleQuote(c, text, g) == GInQuote("InDoubleQuote", "\"", "'", c, text, g)

GInComment(c, text, g) ==
    LET pk == Peek(g.f)
        g1 == IF c = "*" THEN WithStream(g, pk.f) ELSE g
        n1 == GetCh(g1)
    IN  IF c = "*" /\ pk.c = "/"
        THEN GR("Start", text, n1.g, n1.c, FALSE, FALSE, <<>>)
        ELSE IF c = EOFchar
             THEN GR("InComment", text, g1, c, FALSE, TRUE,
                     <<Diag("err", "Error: Unexpected end of input", <<>>)>>)
        ELSE GR("InComment", text, g1, c, FALSE, FALSE, <<>>)

(* lines 154-161 without the assignment of line 159: the loop stops with   *)
(* the state still InIdentifier                                            *)
GInIdentifierNoState(c, text, g) ==
    IF IsAlnum(c)
    THEN GR("InIdentifier", AppendCh(text, c), g, c, FALSE, FALSE, <<>>)
    ELSE GR("InIdentifier", text, g, c, TRUE, FALSE, <<>>)

GInIdentifier(c, text, g) ==
    IF IsAlnum(c)
    THEN GR("InIdentifier", AppendCh(text, c), g, c, FALSE, FALSE, <<>>)
    ELSE GR("Identifier", text, g, c, TRUE, FALSE, <<>>)

GIteration(st, c, text, g) ==
    CASE st = "Start" -> GStart(c, text, g)
      [] st = "InSingleQuote" -> GInSingleQuote(c, text, g)
      [] st = "InDoubleQuote" -> GInDoubleQuote(c, text, g)
      [] st = "InComment" -> GInComment(c, text, g)
      [] st = "InIdentifier" -> GInIdentifier(c, text, g)
      [] OTHER -> GR(st, text, g, c, FALSE, FALSE, <<>>)

(* lines 170-193: what nextToken returns for the state the loop ended in   *)
GTokenOf(st, text) ==
    CASE st = "EoF" -> "EoF"
      [] st = "EoL" \/ st = "Other" -> text[1]
      [] st = "Identifier" -> IF text = DefineWord THEN "Define" ELSE "Identifier"
      [] st = "String" -> "String"
      [] OTHER -> "assert"


----------------------------------------------------------------------------
(* main and defineSymbol of ginevra++.cpp.  A call of nextToken records    *)
(* where it returns to in `ret`.                                           *)

CallNextToken(r) ==
    /\ currState' = "Start"
    /\ tokenText' = <<>>
    /\ ret' = r
    /\ pc' = "g_scan"

Lookup(table, text) == IF text \in DOMAIN table THEN table[text] ELSE text

(* line 242: the call *)
GinevraLoop ==
    /\ pc = "g_loop"
    /\ variant = "ginevra"
    /\ CallNextToken("g_main")
    /\ UNCHANGED <<variant, path, input, pos, eofbit, failbit, currChar, token,
                   symbolTable, key, value, lineNum, currColumn, out, diags,
                   exitCode>>

(* one iteration of the loop of lines 75-168, with the getCh() of line 166 *)
GinevraScan ==
    /\ pc = "g_scan"
    /\ LET r == GIteration(currState, currChar, tokenText, GScanner)
           nx == GetCh(r.g)
           g2 == IF r.done \/ r.exit THEN r.g ELSE nx.g
       IN  /\ currState' = r.st
           /\ tokenText' = r.text
           /\ currChar' = IF r.done \/ r.exit THEN r.ch ELSE nx.c
           /\ pos' = g2.f.pos
           /\ eofbit' = g2.f.eof
           /\ failbit' = g2.f.fail
           /\ lineNum' = g2.lineNum
           /\ currColumn' = g2.currColumn
           /\ diags' = diags \o r.diag
           /\ pc' = IF r.exit THEN "halt" ELSE IF r.done THEN "g_ret" ELSE "g_scan"
           /\ exitCode' = IF r.exit THEN "exit1" ELSE exitCode
    /\ UNCHANGED <<variant, path, ret, input, token, symbolTable, key, value,
                   out>>

(* lines 170-193 *)
GinevraReturn ==
    /\ pc = "g_ret"
    /\ IF currState = "Bad"
       THEN /\ diags' = Append(diags, Diag("err", "malformed token", tokenText))
            /\ CallNextToken(ret)
            /\ UNCHANGED <<token, exitCode>>
       ELSE /\ token' = GTokenOf(currState, tokenText)
            /\ pc' = IF GTokenOf(currState, tokenText) = "assert" THEN "halt" ELSE ret
            /\ exitCode' = IF GTokenOf(currState, tokenText) = "assert"
                           THEN "abort" ELSE exitCode
            /\ UNCHANGED <<currState, tokenText, ret, diags>>
    /\ UNCHANGED <<variant, path, input, pos, eofbit, failbit, currChar,
                   symbolTable, key, value, lineNum, currColumn, out>>

(* lines 242-243 and 263-273 *)
GinevraToken ==
    /\ pc = "g_main"
    /\ IF token = "EoF"
       THEN /\ pc' = "halt"
            /\ exitCode' = "exit0"
            /\ UNCHANGED <<currState, tokenText, ret, out>>
       ELSE IF currColumn = 1 /\ token = "#"
       THEN /\ CallNextToken("g_hash")
            /\ UNCHANGED <<out, exitCode>>
       ELSE /\ pc' = "g_loop"
            /\ out' = IF token = "Identifier"
                      THEN out \o Lookup(symbolTable, tokenText) \o <<" ">>
                      ELSE IF token = "\n" THEN out \o <<"\n">>
                      ELSE out \o tokenText
            /\ UNCHANGED <<currState, tokenText, ret, exitCode>>
    /\ UNCHANGED <<variant, path, input, pos, eofbit, failbit, currChar, token,
                   symbolTable, key, value, lineNum, currColumn, diags>>

(* lines 245-246 and 259-262 *)
GinevraHash ==
    /\ pc = "g_hash"
    /\ IF token = "Define"
       THEN /\ CallNextToken("g_name")
            /\ UNCHANGED <<pos, eofbit, failbit, out, diags>>
       ELSE LET gl == GetLine(Stream)
            IN  /\ diags' = Append(diags,
                       Diag("err", "warning: # in column 1, but not a #define", <<>>))
                /\ out' = out \o <<"#">> \o tokenText \o <<" ">> \o gl.line
                              \o <<"\n">>
                /\ pos' = gl.f.pos
                /\ eofbit' = gl.f.eof
                /\ failbit' = gl.f.fail
                /\ pc' = "g_loop"
                /\ UNCHANGED <<currState, tokenText, ret>>
    /\ UNCHANGED <<variant, path, input, currChar, token, symbolTable, key,
                   value, lineNum, currColumn, exitCode>>

(* lines 247-258, and lines 204-206 of defineSymbol *)
GinevraName ==
    /\ pc = "g_name"
    /\ IF token = "EoF"
       THEN /\ diags' = Append(diags, Diag("err", "error: premature end of file", <<>>))
            /\ pc' = "halt"
            /\ exitCode' = "exit1"
            /\ UNCHANGED <<currState, tokenText, ret, key, value>>
       ELSE IF token = "\n"
       THEN /\ diags' = Append(diags,
                   Diag("err", "error: premature end of #define", <<>>))
            /\ pc' = "g_loop"
            /\ UNCHANGED <<currState, tokenText, ret, key, value, exitCode>>
       ELSE IF token = "Identifier"
       THEN /\ diags' = IF tokenText \in DOMAIN symbolTable
                        THEN Append(diags,
                               Diag("err", "error: multiple symbol definitions", <<>>))
                        ELSE diags
            /\ key' = tokenText
            /\ value' = <<>>
            /\ CallNextToken("g_def")
            /\ UNCHANGED exitCode
       ELSE /\ diags' = Append(diags,
                   Diag("err", "error: identifier expected after #define", <<>>))
            /\ pc' = "g_loop"
            /\ UNCHANGED <<currState, tokenText, ret, key, value, exitCode>>
    /\ UNCHANGED <<variant, path, input, pos, eofbit, failbit, currChar, token,
                   symbolTable, lineNum, currColumn, out>>

(* one pass of the loop of defineSymbol, lines 207-224 *)
GinevraDefine ==
    /\ pc = "g_def"
    /\ IF token = "EoF"
       THEN /\ diags' = Append(diags, Diag("err", "error: premature end of file", <<>>))
            /\ pc' = "halt"
            /\ exitCode' = "exit1"
            /\ UNCHANGED <<currState, tokenText, ret, value, symbolTable>>
       ELSE IF token = "\n"
       THEN /\ symbolTable' = Bind(symbolTable, key, value)
            /\ pc' = "g_loop"
            /\ UNCHANGED <<currState, tokenText, ret, value, diags, exitCode>>
       ELSE /\ value' = IF token = "Identifier"
                        THEN value \o Lookup(symbolTable, tokenText)
                        ELSE value \o tokenText
            /\ CallNextToken("g_def")
            /\ UNCHANGED <<symbolTable, diags, exitCode>>
    /\ UNCHANGED <<variant, path, input, pos, eofbit, failbit, currChar, token,
                   key, lineNum, currColumn, out>>


Next ==
    \/ CheckExtension
    \/ OpenMissing
    \/ OpenEmpty
    \/ OpenBetter
    \/ OpenGinevra
    \/ BetterLoop
    \/ BetterScan
    \/ BetterToken
    \/ BetterDefine
    \/ GinevraLoop
    \/ GinevraScan
    \/ GinevraReturn
    \/ GinevraToken
    \/ GinevraHash
    \/ GinevraName
    \/ GinevraDefine

Spec == Init /\ [][Next]_vars



----------------------------------------------------------------------------
(* What the claims are stated with *)

Halted == pc = "halt"
Scanning == pc \in {"b_scan", "g_scan"}
NameX == <<"X">>

Bytes(s) == { s[i] : i \in DOMAIN s }

IsSpace(c) == c \in {" ", "\t", "\n"}
NotSpace(c) == ~IsSpace(c)
Squeeze(s) == SelectSeq(s, NotSpace)

(* n occurs in s as a whole identifier: not next to another identifier byte *)
IdentByte(c) == IsAlnum(c) \/ c = "."

OccursWhole(n, s) ==
    \E i \in 0..(Len(s) - Len(n)) :
        /\ SubSeq(s, i + 1, i + Len(n)) = n
        /\ i = 0 \/ ~IdentByte(s[i])
        /\ i + Len(n) = Len(s) \/ ~IdentByte(s[i + Len(n) + 1])

(* what a step writes to standard output *)
Emitted == SubSeq(out', Len(out) + 1, Len(out'))

NumDirectives == Cardinality({ i \in DOMAIN input : input[i] = "#" })

(* index of the '/' of the first "*/" whose '*' is at index from or later, *)
(* or 0                                                                    *)
RECURSIVE CloserFrom(_, _)
CloserFrom(s, from) ==
    IF from >= Len(s) THEN 0
    ELSE IF s[from] = "*" /\ s[from + 1] = "/" THEN from + 1
    ELSE CloserFrom(s, from + 1)

(* s without its comments; a comment that is never closed runs to the end *)
RECURSIVE StripFrom(_, _)
StripFrom(s, i) ==
    IF i > Len(s) THEN <<>>
    ELSE IF i < Len(s) /\ s[i] = "/" /\ s[i + 1] = "*"
         THEN IF CloserFrom(s, i + 2) = 0 THEN <<>>
              ELSE StripFrom(s, CloserFrom(s, i + 2) + 1)
    ELSE <<s[i]>> \o StripFrom(s, i + 1)

StripComments(s) == StripFrom(s, 1)

(* every comment of s, from index i on, is closed *)
RECURSIVE ClosedFrom(_, _)
ClosedFrom(s, i) ==
    IF i >= Len(s) THEN TRUE
    ELSE IF s[i] = "/" /\ s[i + 1] = "*"
         THEN CloserFrom(s, i + 2) # 0 /\ ClosedFrom(s, CloserFrom(s, i + 2) + 1)
    ELSE ClosedFrom(s, i + 1)

----------------------------------------------------------------------------
C1_PlainFile ==
    /\ Bytes(input) \cap {"'", "\"", "/", "*", "\\", "xFF"} = {}
    /\ \A i \in DOMAIN input :
          input[i] = "#" => /\ i + Len(DefineKw) <= Len(input)
                            /\ SubSeq(input, i, i + Len(DefineKw)) = DefineKw \o <<" ">>

(* C1.  Substitution: once NAME is bound, a later NAME outside comments    *)
(* and quoted strings is written as its value and never as the text NAME,  *)
(* whatever precedes it.  Stated for files without quote, comment or 0xFF  *)
(* bytes in which every '#' starts "#define ": no step that writes source  *)
(* text (and no diagnostic) writes the text of a name that is bound.       *)
C1_Substitution ==
    [][ (C1_PlainFile /\ out' # out /\ diags' = diags)
        => \A n \in DOMAIN symbolTable : ~OccursWhole(n, Emitted) ]_vars

(* what an iteration of the scanner loop decides on *)
C2_Control == <<currState, currChar, pos, eofbit, failbit>>

(* C2.  Termination: every run on a finite file halts, by normal           *)
(* completion or by a fatal exit: no iteration of the scanner loop stays   *)
(* in the loop with the scanner state, the lookahead character and the     *)
(* stream unchanged, since the next iteration would then decide the same   *)
(* and nextToken would loop forever.                                       *)
C2_Terminates ==
    [][ (Scanning /\ pc' = pc) => C2_Control' # C2_Control ]_vars

C3_DirectiveFile == input \in Cat({Define1, Define2, NameX}, MaxFrags)

C3_LastDirective ==
    CHOOSE i \in DOMAIN input :
        input[i] = "#" /\ \A j \in DOMAIN input : input[j] = "#" => j <= i

C3_LastValue ==
    SubSeq(input, C3_LastDirective + 10, NewlineAfter(C3_LastDirective) - 1)

(* C3.  Redefinition: after a file of two or more well-formed X directives *)
(* (with uses of X between them) the run has completed, X is bound to the  *)
(* value of the last directive (compared without whitespace), and every    *)
(* directive after the first produced one warning naming X.                *)
C3_Redefinition ==
    (Halted /\ C3_DirectiveFile /\ NumDirectives >= 2)
    => /\ exitCode = "exit0"
       /\ NameX \in DOMAIN symbolTable
       /\ Squeeze(symbolTable[NameX]) = Squeeze(C3_LastValue)
       /\ Cardinality({ i \in DOMAIN diags : diags[i].arg = NameX })
             = NumDirectives - 1

C4_CommentEnd ==
    IF CloserFrom(input, 3) = 0 THEN Len(input) + 1 ELSE CloserFrom(input, 3)

(* C4.  Comments are inert: in a file that opens with a closed comment,    *)
(* while the cursor is before the '/' of the first following "*/" the      *)
(* scanner is still in the comment, nothing has been written and nothing   *)
(* is bound.                                                               *)
C4_CommentsInert ==
    (Scanning /\ Len(input) >= 2 /\ input[1] = "/" /\ input[2] = "*"
              /\ CloserFrom(input, 3) # 0
              /\ pos >= 3 /\ pos < C4_CommentEnd)
    => /\ currState = "InComment"
       /\ out = <<>>
       /\ DOMAIN symbolTable = {}

C5_QuoteOf(st) == IF st = "InSingleQuote" THEN "'" ELSE "\""

(* C5.  Escaped quote: in a quoted string, a backslash followed by the     *)
(* string's own quote character is consumed with it, adds exactly that     *)
(* quote character to the token text and leaves the string open.           *)
C5_EscapedQuote ==
    [][ (Scanning /\ currState \in {"InSingleQuote", "InDoubleQuote"}
                  /\ currChar = "\\" /\ pos < Len(input)
                  /\ input[pos + 1] = C5_QuoteOf(currState))
        => /\ tokenText' = Append(tokenText, C5_QuoteOf(currState))
           /\ currState' = currState
           /\ pos' > pos ]_vars

C6_Prefix == DefineKw \o <<" ", "X", " ">>

(* C6.  Replacement value capture: in a file whose only directive is its   *)
(* first line, `#define X rest`, X is bound to exactly the rest of that    *)
(* line after the one space that follows X.                                *)
C6_ValueVerbatim ==
    (NameX \in DOMAIN symbolTable /\ NumDirectives = 1
        /\ Len(input) > Len(C6_Prefix)
        /\ SubSeq(input, 1, Len(C6_Prefix)) = C6_Prefix
        /\ NewlineAfter(0) > 0)
    => symbolTable[NameX] = SubSeq(input, Len(C6_Prefix) + 1, NewlineAfter(0) - 1)

C7_PlainFile ==
    /\ Bytes(input) \subseteq {"X", ";", "#", "/", "*", " ", "\n"}
    /\ ClosedFrom(input, 1)

(* C7.  Pass-through: for a file without a define directive, quotes,       *)
(* backslashes or 0xFF bytes, all of whose comments are closed, a          *)
(* completed run has written, whitespace aside, the file without its       *)
(* comments.                                                               *)
C7_PassThrough ==
    (Halted /\ exitCode = "exit0" /\ C7_PlainFile)
    => Squeeze(out) = Squeeze(StripComments(input))

(* C8.  Diagnostics channel: every diagnostic goes to standard error,      *)
(* never to standard output.                                               *)
C8_DiagnosticsOnStderr == \A i \in DOMAIN diags : diags[i].chan = "err"

C9_EndsWith(p, suf) == Len(p) >= Len(suf) /\ Suffix(p, Len(suf)) = suf

C9_ValidPath == C9_EndsWith(path, <<".","h">>) \/ C9_EndsWith(path, <<".","c","p","p">>)

C9_InvalidDiag == Diag("err", "Invalid file extension", <<>>)

(* C9.  Extension check: a path that does not end in .h or .cpp ends the   *)
(* run with 'Invalid file extension' and exit code 1 before any file is    *)
(* opened; a path that ends in .h or .cpp passes the check.                *)
C9_ExtensionCheck ==
    pc # "start"
    => IF C9_ValidPath
       THEN exitCode # "abort" /\ \A i \in DOMAIN diags : diags[i] # C9_InvalidDiag
       ELSE Halted /\ exitCode = "exit1" /\ diags = <<C9_InvalidDiag>>

C10_EoFReturned ==
    \/ pc \in {"b_tok", "b_sym"} /\ currState = "EoF"
    \/ pc \in {"g_main", "g_hash", "g_name", "g_def"} /\ token = "EoF"

(* C10.  EoF is absorbing: nextToken returns EoF only when every byte of   *)
(* the file has been consumed; and (ginevra++, whose `token` still holds   *)
(* the previous result when nextToken returns) after an EoF the next       *)
(* result is EoF again, with empty text and the cursor where it was.       *)
C10_EoFAbsorbing ==
    /\ [](C10_EoFReturned => pos = Len(input))
    /\ [][ (pc = "g_ret" /\ currState # "Bad" /\ token = "EoF")
           => (token' = "EoF" /\ tokenText' = <<>> /\ pos' = pos) ]_vars

(* a rest-of-line capture that follows an identifier token which a real    *)
(* character of the file ended: nextLine() at line 218 of better.cpp and   *)
(* at line 261 of ginevra++.cpp                                            *)
C11_LineRead ==
    /\ \/ pc = "b_sym" /\ currState = "Identifier"
       \/ pc = "g_hash" /\ token = "Identifier"
    /\ ~eofbit /\ ~failbit

(* index of the character that ended the identifier: better.cpp has put it *)
(* back, ginevra++ holds it in currChar                                    *)
C11_HeldBack == IF variant = "better" THEN pos + 1 ELSE pos

C11_RestOfLine ==
    SubSeq(input, C11_HeldBack,
           IF NewlineAfter(C11_HeldBack - 1) > 0
           THEN NewlineAfter(C11_HeldBack - 1) - 1 ELSE Len(input))

(* C11.  Pushback discipline: the character that ended an identifier is    *)
(* the first character the next read of the input examines, here the       *)
(* driver's rest-of-line capture: the captured line is the input from the  *)
(* held-back character to the end of its line.                             *)
C11_Pushback ==
    [][ C11_LineRead
        => IF variant = "better"
           THEN value' = C11_RestOfLine
           ELSE Emitted = <<"#">> \o tokenText \o <<" ">> \o C11_RestOfLine
                              \o <<"\n">> ]_vars

(* nextToken has just returned a token of kind Identifier *)
C12_IdentifierReturned ==
    \/ pc \in {"b_tok", "b_sym"} /\ currState = "Identifier"
    \/ pc \in {"g_main", "g_hash", "g_name", "g_def"}
          /\ token \in {"Identifier", "Define"}

(* number of input characters delivered to tokens so far: ginevra++ holds  *)
(* one more, already extracted, in currChar                                *)
C12_Delivered == IF variant = "ginevra" /\ ~failbit THEN pos - 1 ELSE pos

(* C12.  Identifier lexeme: the text of a token of kind Identifier is a    *)
(* letter or '#' followed by letters and periods only, and it is the run   *)
(* of input characters that ends where the scanner stopped.                *)
C12_IdentifierLexeme ==
    C12_IdentifierReturned
    => /\ tokenText # <<>>
       /\ IsAlpha(tokenText[1]) \/ tokenText[1] = "#"
       /\ \A i \in 2..Len(tokenText) : IsAlpha(tokenText[i]) \/ tokenText[i] = "."
       /\ Len(tokenText) <= C12_Delivered
       /\ tokenText = SubSeq(input, C12_Delivered - Len(tokenText) + 1, C12_Delivered)

(* the file's only '#' starts the line "#define X 1", after one or more    *)
(* characters of ordinary text on the same line                            *)
C13_MidLineDirective ==
    /\ NumDirectives = 1
    /\ \E i \in 2..Len(input) :
          /\ i + Len(Define1) - 1 <= Len(input)
          /\ SubSeq(input, i, i + Len(Define1) - 1) = Define1
          /\ \A j \in 1..(i - 1) : input[j] \in {"X", ";", " "}
          /\ \E j \in 1..(i - 1) : input[j] # " "

(* C13.  Directive position: a define directive is handled only when its   *)
(* '#' is the first character of a line: `#define X 1` that starts later   *)
(* in its line installs no binding.                                        *)
C13_DirectivePosition == C13_MidLineDirective => DOMAIN symbolTable = {}

(* the scanner is in a quoted string and its current character is a       *)
(* newline (input[pos]) that no backslash precedes                         *)
C14_NewlineInString ==
    /\ Scanning
    /\ currState \in {"InSingleQuote", "InDoubleQuote"}
    /\ currChar = "\n"
    /\ pos >= 2 /\ input[pos] = "\n" /\ input[pos - 1] # "\\"

(* C14.  Recovery after a string cut off by a newline: the token ends as   *)
(* a malformed one, the run continues, and nothing after the newline has   *)
(* been extracted, so the next token begins with the first character of    *)
(* the following line.                                                     *)
C14_Recovery ==
    [][ C14_NewlineInString
        => /\ currState' = "Bad"
           /\ exitCode' = "running"
           /\ pos' = pos ]_vars

(* the scanner is in a quoted string, and neither its current character    *)
(* nor the next character of the file is a quote or a backslash, so that   *)
(* exchanging the two quote characters changes nothing the step reads      *)
C15_InString ==
    /\ Scanning
    /\ currState \in {"InSingleQuote", "InDoubleQuote"}
    /\ currChar \notin {"'", "\"", "\\"}
    /\ pos < Len(input) => input[pos + 1] \notin {"'", "\"", "\\"}

C15_Mirror(st) ==
    CASE st = "InSingleQuote" -> "InDoubleQuote"
      [] st = "InDoubleQuote" -> "InSingleQuote"
      [] OTHER -> st

(* the two results of one scanner iteration agree *)
C15_Same(a, b, sa, sb) ==
    /\ a.st = C15_Mirror(b.st)
    /\ a.text = b.text
    /\ sa = sb
    /\ a.ch = b.ch
    /\ a.done = b.done
    /\ a.exit = b.exit
    /\ a.diag = b.diag

(* C15.  Quote symmetry: single- and double-quoted strings are scanned the *)
(* same way: wherever the scanner is inside a string, on a character that  *)
(* is no quote and no backslash the single-quote rule and the double-quote *)
(* rule give the same text, consume the same characters, report the same   *)
(* diagnostics and end the same way.                                       *)
C15_QuoteSymmetry ==
    C15_InString
    => IF variant = "better"
       THEN LET a == BInSingleQuote(currChar, tokenText, Stream)
                b == BInDoubleQuote(currChar, tokenText, Stream)
            IN  C15_Same(a, b, a.f, b.f)
       ELSE LET a == GInSingleQuote(currChar, tokenText, GScanner)
                b == GInDoubleQuote(currChar, tokenText, GScanner)
            IN  C15_Same(a, b, a.g, b.g)

(* the scanner is in a quoted string, at a backslash (input[pos]) that a   *)
(* newline follows                                                         *)
C16_AtContinuation ==
    /\ Scanning
    /\ currState \in {"InSingleQuote", "InDoubleQuote"}
    /\ currChar = "\\"
    /\ pos < Len(input) /\ input[pos] = "\\" /\ input[pos + 1] = "\n"

(* C16.  Line continuation in strings: in a quoted string a backslash      *)
(* followed by a newline is consumed together with the newline, adds       *)
(* nothing to the token text and leaves the string open: the scanner goes  *)
(* on with the character after the newline.                                *)
C16_LineContinuation ==
    [][ C16_AtContinuation
        => /\ tokenText' = tokenText
           /\ currState' = currState
           /\ pc' = pc
           /\ pos' = IF pos + 2 <= Len(input) THEN pos + 2 ELSE Len(input) ]_vars

(* the file is the define keyword, in column 1, followed by blanks at     *)
(* most                                                                    *)
C17_KeywordThenEnd ==
    /\ Len(input) >= Len(DefineKw)
    /\ SubSeq(input, 1, Len(DefineKw)) = DefineKw
    /\ \A j \in (Len(DefineKw) + 1)..Len(input) : input[j] = " "

(* C17.  Premature end of input in a directive is fatal: when the file     *)
(* ends right after the define keyword the run reports a diagnostic on     *)
(* standard error and exits with a non-zero status.                        *)
C17_PrematureEndFatal ==
    (Halted /\ C17_KeywordThenEnd)
    => /\ exitCode = "exit1"
       /\ \E d \in DOMAIN diags : diags[d].chan = "err"

(* what follows the define keyword at the start of the file *)
C18_Contents == SubSeq(input, Len(DefineKw) + 1, Len(input))

(* the file is one define directive whose first token after the keyword   *)
(* is the punctuation ';', followed by plain text                          *)
C18_MalformedDirective ==
    /\ Len(input) > Len(DefineKw)
    /\ SubSeq(input, 1, Len(DefineKw)) = DefineKw
    /\ Bytes(C18_Contents) \subseteq {"X", ";", " ", "\n"}
    /\ Squeeze(C18_Contents) # <<>>
    /\ Squeeze(C18_Contents)[1] = ";"

(* C18.  Malformed directive keeps the source text: when the token after   *)
(* the define keyword is not an identifier, a completed run has reported   *)
(* an error, installed no binding and written, whitespace aside, all the   *)
(* contents of the directive after the keyword.                            *)
C18_MalformedKept ==
    (Halted /\ exitCode = "exit0" /\ C18_MalformedDirective)
    => /\ diags # <<>>
       /\ DOMAIN symbolTable = {}
       /\ Squeeze(out) = Squeeze(C18_Contents)

(* the step completes a define directive whose name is an identifier:      *)
(* line 227 of better.cpp, line 218 of ginevra++.cpp                       *)
C19_DirectiveCompleted ==
    \/ pc = "b_sym" /\ currState = "Identifier"
    \/ pc = "g_def" /\ token = "\n"

(* the name of the directive being completed *)
C19_Name == IF variant = "better" THEN tokenText ELSE key

(* C19.  Symbol-table frame: the symbol table changes only in the step     *)
(* that completes a define directive with an identifier as its name, and   *)
(* then only the binding of that name changes: every other binding stays   *)
(* as it was and none is removed.  No other step (an identifier looked up, *)
(* bound or not, a string, punctuation, a newline, a malformed token or    *)
(* directive) changes the table.                                           *)
C19_TableFrame ==
    [][ symbolTable' # symbolTable
        => /\ C19_DirectiveCompleted
           /\ DOMAIN symbolTable' = DOMAIN symbolTable \cup {C19_Name}
           /\ \A k \in DOMAIN symbolTable :
                 k # C19_Name => symbolTable'[k] = symbolTable[k] ]_vars

(* a completed run in which a directive bound X and later tokens were     *)
(* looked up and written                                                   *)
C19_BoundAndWritten ==
    /\ Halted
    /\ exitCode = "exit0"
    /\ NameX \in DOMAIN symbolTable
    /\ out # <<>>

(* the states the switch of better.cpp's loop has a case for *)
C20_BetterLoopStates ==
    {"Start", "InIdentifier", "InSingleQuote", "InDoubleQuote", "InComment",
     "Other"}

(* the states the return switch of ginevra++.cpp has a case for *)
C20_GinevraFinalStates == {"Bad", "EoF", "EoL", "Other", "Identifier", "String"}

(* C20.  Unreachable fallbacks: the switch of better.cpp's scanning loop   *)
(* is only entered with a state it has a case for, so its default branch   *)
(* never runs; the scanning loop of ginevra++.cpp only ends in a state its *)
(* return switch has a case for, so no assert(0) is reached.               *)
C20_FallbacksUnreachable ==
    /\ pc = "b_scan" => currState \in C20_BetterLoopStates
    /\ pc = "g_ret" => currState \in C20_GinevraFinalStates
    /\ token # "assert"

(* the scanning loop of ginevra++.cpp has ended with a malformed token *)
C20_LoopEnded == pc = "g_ret" /\ currState = "Bad"

====
